---- MODULE Spec2Model ----
(***************************************************************************)
(* Model of galaxy/tools/containment_vessel/containment_vessel.py (the     *)
(* reactor-building geometry script) and of galaxy/lib/mcfe_datatypes.py   *)
(* (the data-type registration classes).                                   *)
(*                                                                         *)
(* Numbers are Python floats in the source.  They are modelled in exact    *)
(* fixed point: an integer n stands for n / One.  All inputs are chosen so *)
(* that every product the script forms is exact in this representation.   *)
(* Python values are tagged records [t, v]; CAD solids are the expression  *)
(* trees of the cadquery calls that produced them.                         *)
(***************************************************************************)
EXTENDS Integers, Sequences, FiniteSets, TLC

VARIABLES pc, data, g, loc, kernel, calls, err, exported

vars == <<pc, data, g, loc, kernel, calls, err, exported>>

(***************************************************************************)
(* Bounds of the model                                                     *)
(***************************************************************************)
MaxLen == 2
MaxRadial == 2

(***************************************************************************)
(* Fixed-point scale and the literals of the script                        *)
(***************************************************************************)
One == 1000
CoreOffset == 800
SlabThickness == 300
roof_thickness == 300
wall_thickness == 200
BoxSize == 100000
BoxShift == 50000

(***************************************************************************)
(* Python values.  Every JSON number is taken to be a float, so that * on  *)
(* a string operand is a TypeError (str * int would repeat the string and  *)
(* raise one statement later, on line 50).                                  *)
(***************************************************************************)
Num(n) == [t |-> "num", v |-> n]
Str(s) == [t |-> "str", v |-> s]
List(s) == [t |-> "list", v |-> s]
Null == [t |-> "null", v |-> 0]
Missing == [t |-> "missing", v |-> 0]
None == [t |-> "unset", v |-> 0]
Raise(e) == [t |-> "raise", v |-> e]

IsNum(a) == a.t = "num"
IsRaise(a) == a.t = "raise"

\* float * x : defined for two floats, TypeError otherwise
PyMul(a, b) ==
  IF IsRaise(a) THEN a
  ELSE IF IsRaise(b) THEN b
  ELSE IF IsNum(a) /\ IsNum(b) THEN Num((a.v * b.v) \div One)
  ELSE Raise("TypeError")

\* float + x
PyAdd(a, b) ==
  IF IsRaise(a) THEN a
  ELSE IF IsRaise(b) THEN b
  ELSE IF IsNum(a) /\ IsNum(b) THEN Num(a.v + b.v)
  ELSE Raise("TypeError")

\* float - x
PySub(a, b) ==
  IF IsRaise(a) THEN a
  ELSE IF IsRaise(b) THEN b
  ELSE IF IsNum(a) /\ IsNum(b) THEN Num(a.v - b.v)
  ELSE Raise("TypeError")

\* -x
PyNeg(a) ==
  IF IsRaise(a) THEN a
  ELSE IF IsNum(a) THEN Num(0 - a.v)
  ELSE Raise("TypeError")

\* x / 2
PyHalf(a) ==
  IF IsRaise(a) THEN a
  ELSE IF IsNum(a) THEN Num(a.v \div 2)
  ELSE Raise("TypeError")

\* x[0]; of a non-empty string, a one-character string (its content is never
\* inspected)
PyItem0(a) ==
  IF IsRaise(a) THEN a
  ELSE IF a.t = "list"
       THEN IF Len(a.v) = 0 THEN Raise("IndexError") ELSE a.v[1]
  ELSE IF a.t = "str"
       THEN IF a.v = "" THEN Raise("IndexError") ELSE Str("c")
  ELSE Raise("TypeError")

RECURSIVE SumFrom(_, _)
SumFrom(acc, s) ==
  IF IsRaise(acc) \/ Len(s) = 0 THEN acc
  ELSE SumFrom(PyAdd(acc, Head(s)), Tail(s))

\* sum(x): folds + from 0 over the items, left to right
PySum(a) ==
  IF IsRaise(a) THEN a
  ELSE IF a.t = "list" THEN SumFrom(Num(0), a.v)
  ELSE IF a.t = "str" /\ a.v # "" THEN Raise("TypeError")
  ELSE IF a.t = "str" THEN Num(0)
  ELSE Raise("TypeError")

(***************************************************************************)
(* Errors                                                                  *)
(***************************************************************************)
NoErr == [type |-> "none", msg |-> "", line |-> 0]
Error(ty, m, l) == [type |-> ty, msg |-> m, line |-> l]

(***************************************************************************)
(* cadquery solids: the expression tree of the kernel calls                *)
(***************************************************************************)
NoSolid == [op |-> "none"]
Cylinder(plane, off, h, r) ==
  [op |-> "cylinder", plane |-> plane, off |-> off, h |-> h, r |-> r]
Sphere(plane, off, r) ==
  [op |-> "sphere", plane |-> plane, off |-> off, r |-> r]
Box(plane, l, w, h) ==
  [op |-> "box", plane |-> plane, l |-> l, w |-> w, h |-> h]
Cut(a, b) == [op |-> "cut", a |-> a, b |-> b]
Union(a, b) == [op |-> "union", a |-> a, b |-> b]
Chamfer(a, sel, d) == [op |-> "chamfer", a |-> a, sel |-> sel, d |-> d]
Translate(a, vec) == [op |-> "translate", a |-> a, vec |-> vec]
Export(a, f) == [op |-> "export", a |-> a, file |-> f]

Origin == <<0, 0, 0>>

\* What evaluating a statement leaves behind: the error it raised (if any), the
\* kernel calls it makes, in order, the value it returned, and the calls of
\* reactor_building's helpers it entered.
Returned(ops, val) ==
  [err |-> NoErr, ops |-> ops, val |-> val, called |-> <<>>]
Raised(e) == [err |-> e, ops |-> <<>>, val |-> NoSolid, called |-> <<>>]
Entered(fn, args, out) ==
  [out EXCEPT !.called = <<[fn |-> fn, args |-> args]>>]

(***************************************************************************)
(* reactor_building's two nested helpers                                   *)
(***************************************************************************)
\* Variants of generate_hollow_cylinder: one that lets equal radii through,
\* one that validates nothing.
generate_hollow_cylinder_strict(height, outer_radius, inner_radius, offset) ==
  IF outer_radius < inner_radius
  THEN Raised(Error("ValueError",
                    "outer_radius must be larger than inner_radius", 116))
  ELSE LET cylinder1 == Cylinder("ZX", offset, height, outer_radius)
           cylinder2 == Cylinder("ZX", offset, height, inner_radius)
           cylinder == Cut(cylinder1, cylinder2)
       IN Returned(<<cylinder1, cylinder2, cylinder>>, cylinder)

generate_hollow_cylinder_unchecked(height, outer_radius, inner_radius, offset) ==
  LET cylinder1 == Cylinder("ZX", offset, height, outer_radius)
      cylinder2 == Cylinder("ZX", offset, height, inner_radius)
      cylinder == Cut(cylinder1, cylinder2)
  IN Returned(<<cylinder1, cylinder2, cylinder>>, cylinder)

generate_hollow_cylinder(height, outer_radius, inner_radius, offset) ==
  IF outer_radius <= inner_radius
  THEN Raised(Error("ValueError",
                    "outer_radius must be larger than inner_radius", 116))
  ELSE LET cylinder1 == Cylinder("ZX", offset, height, outer_radius)
           cylinder2 == Cylinder("ZX", offset, height, inner_radius)
           cylinder == Cut(cylinder1, cylinder2)
       IN Returned(<<cylinder1, cylinder2, cylinder>>, cylinder)

\* Variant of create_roof: an unknown kind falls back to the flat roof.
create_roof_fallback(roof_type, reactor_building_radius, building_height, contain_thickness) ==
  LET offset_height == (building_height \div 2) + (roof_thickness \div 2)
      disk == Cylinder("ZX", <<0, 0, offset_height>>, roof_thickness,
                       reactor_building_radius)
  IN Returned(<<disk>>, disk)

\* contain_thickness is the enclosing function's parameter, read by the
\* "domed" branch through the closure.
create_roof(roof_type, reactor_building_radius, building_height, contain_thickness) ==
  LET offset_height == (building_height \div 2) + (roof_thickness \div 2)
  IN
  IF roof_type = "flat"
  THEN LET disk == Cylinder("ZX", <<0, 0, offset_height>>, roof_thickness,
                            reactor_building_radius)
       IN Returned(<<disk>>, disk)
  ELSE IF roof_type = "domed"
  THEN LET outer_radius == reactor_building_radius
           inner_radius == outer_radius - contain_thickness
           outer_sphere == Sphere("ZX", Origin, outer_radius)
           inner_sphere == Sphere("ZX", Origin, inner_radius)
           hemisphere1 == Cut(outer_sphere, inner_sphere)
           hemisphere2 == Translate(hemisphere1, <<0, offset_height, 0>>)
           cut_box0 == Box("ZX", 3 * outer_radius, 3 * outer_radius,
                           2 * outer_radius)
           cut_box == Translate(cut_box0, Origin)
           hemisphere == Cut(hemisphere2, cut_box)
       IN Returned(<<outer_sphere, inner_sphere, hemisphere1, hemisphere2,
                     cut_box0, cut_box, hemisphere>>, hemisphere)
  ELSE IF roof_type = "cone"
  THEN LET cone_height == roof_thickness * 4
           bottom_radius == reactor_building_radius
           cone_base == Cylinder("ZX", Origin, cone_height, bottom_radius)
           truncated_cone1 == Chamfer(cone_base, ">Y",
                                      (cone_height * 750) \div One)
           inner_radius == bottom_radius - wall_thickness
           inner_cone == Cylinder("ZX", Origin, cone_height, inner_radius)
           inner_chamfered == Chamfer(inner_cone, ">Y",
                                      (cone_height * 750) \div One)
           truncated_inner_cone == Translate(inner_chamfered, <<0, -300, 0>>)
           truncated_cone == Cut(truncated_cone1, truncated_inner_cone)
           cone_translated == Translate(truncated_cone,
                                        <<0, offset_height, 0>>)
       IN Returned(<<cone_base, truncated_cone1, inner_cone, inner_chamfered,
                     truncated_inner_cone, truncated_cone, cone_translated>>,
                   cone_translated)
  ELSE Raised(Error("ValueError", "Invalid roof type", 112))

(***************************************************************************)
(* The dimensions reactor_building derives (lines 50-51)                   *)
(***************************************************************************)
\* Variant of reactor_core_radius: the 0.8 offset left out.
reactor_core_radius_no_offset(radial_build, major_rad) ==
  PyAdd(PySum(radial_build), major_rad)

reactor_core_radius(radial_build, major_rad) ==
  PyAdd(PyAdd(PySum(radial_build), Num(CoreOffset)), major_rad)

reactor_core_height(core_radius) == PyMul(Num(2 * One), core_radius)

(***************************************************************************)
(* Input documents                                                         *)
(***************************************************************************)
RadialVals == {k * One : k \in 1..MaxRadial}

RECURSIVE SeqsUpTo(_, _)
SeqsUpTo(S, n) ==
  IF n = 0 THEN {<<>>}
  ELSE LET shorter == SeqsUpTo(S, n - 1)
       IN shorter \cup {Append(s, x) : s \in shorter, x \in S}

RadialBuilds ==
  {List(s) : s \in SeqsUpTo({Num(v) : v \in RadialVals}, MaxLen)}
    \cup {Missing, Null, Str("abc"), List(<<Num(One), Str("x")>>)}
AspectRatios == {Missing, Str("1.5"), Num(0), Num(1500)}
ScaleFactors == {Missing, Str("1.2"), Num(800), Num(One), Num(1200)}
ShieldThicknesses == {Missing, Null, Num(0 - 500), Num(0), Num(500)}
ContainThicknesses == {Missing, Str("0.3"), Num(0), Num(300)}

NoSection == [t |-> "missing"]
Geometries ==
  {[t |-> "obj", aspect_ratio |-> a, radial_build |-> r] :
     a \in AspectRatios, r \in RadialBuilds}
Containments ==
  {[t |-> "obj", building_scale_factor |-> f, shield_thickness |-> s,
    containment_vessel_thickness |-> c] :
     f \in ScaleFactors, s \in ShieldThicknesses, c \in ContainThicknesses}
PlainGeometry ==
  [t |-> "obj", aspect_ratio |-> Num(1500),
   radial_build |-> List(<<Num(One)>>)]
PlainContainment ==
  [t |-> "obj", building_scale_factor |-> Num(1200),
   shield_thickness |-> Num(500), containment_vessel_thickness |-> Num(300)]

Documents ==
  {[t |-> "obj", geometry |-> gd, containment_vessel |-> cd] :
     gd \in Geometries, cd \in Containments}
    \cup {[t |-> "obj", geometry |-> NoSection,
           containment_vessel |-> PlainContainment],
          [t |-> "obj", geometry |-> PlainGeometry,
           containment_vessel |-> NoSection],
          [t |-> "invalid", geometry |-> NoSection,
           containment_vessel |-> NoSection]}

(***************************************************************************)
(* State                                                                   *)
(***************************************************************************)
NoGlobals ==
  [aspect_ratio |-> None, radial_build_input |-> None, building_sf |-> None,
   shield_thickness_input |-> None, contain_thick |-> None,
   major_radius |-> None, containment_vessel |-> NoSolid]

NoLocals ==
  [reactor_core_radius |-> None, reactor_core_height |-> None,
   building_scale_factor |-> None, building_height |-> None,
   reactor_shielding |-> NoSolid, reactor_building |-> NoSolid,
   reactor_core_floor |-> NoSolid, reactor_building_floor |-> NoSolid,
   support_structure_upper |-> NoSolid, support_structure_middle |-> NoSolid,
   support_structure_lower |-> NoSolid, roof |-> NoSolid,
   total_structure |-> NoSolid, box1 |-> NoSolid]

Init ==
  /\ pc = "open"
  /\ data \in Documents
  /\ g = NoGlobals
  /\ loc = NoLocals
  /\ kernel = <<>>
  /\ calls = <<>>
  /\ err = NoErr
  /\ exported = NoSolid

\* Variant of Fail: the error is recorded and the script goes on to the export.
Fail_and_continue(e) == pc' = "export" /\ err' = e

\* An uncaught exception ends the script.
Fail(e) == pc' = "failed" /\ err' = e

\* One statement whose evaluation is `out`: a raise ends the script; otherwise
\* the CAD kernel completes the statement's calls in order, and any one of them
\* may fail instead (KernelOperationFailure), which ends the script the same way.
Exec(out, var, nextpc, line) ==
  /\ UNCHANGED <<data, g, exported>>
  /\ calls' = calls \o out.called
  /\ IF out.err # NoErr
     THEN /\ Fail(out.err)
          /\ kernel' = kernel \o out.ops
          /\ UNCHANGED loc
     ELSE \E k \in 0..Len(out.ops) :
            IF k < Len(out.ops)
            THEN /\ Fail(Error("KernelOperationFailure",
                               out.ops[k + 1].op, line))
                 /\ kernel' = kernel \o SubSeq(out.ops, 1, k)
                 /\ UNCHANGED loc
            ELSE /\ kernel' = kernel \o out.ops
                 /\ loc' = [loc EXCEPT ![var] = out.val]
                 /\ pc' = nextpc
                 /\ UNCHANGED err

(***************************************************************************)
(* The script, statement by statement                                      *)
(***************************************************************************)
\* lines 197-198: open the file and json.load it
LoadData ==
  /\ pc = "open"
  /\ UNCHANGED <<data, g, loc, kernel, calls, exported>>
  /\ IF data.t = "invalid"
     THEN Fail(Error("JSONDecodeError", "", 198))
     ELSE pc' = "geometry" /\ UNCHANGED err

\* lines 201-203
ReadGeometry ==
  /\ pc = "geometry"
  /\ UNCHANGED <<data, loc, kernel, calls, exported>>
  /\ LET geometry_data == data.geometry
     IN IF geometry_data.t = "missing"
        THEN Fail(Error("KeyError", "geometry", 201)) /\ UNCHANGED g
        ELSE IF geometry_data.aspect_ratio.t = "missing"
        THEN Fail(Error("KeyError", "aspect_ratio", 202)) /\ UNCHANGED g
        ELSE IF geometry_data.radial_build.t = "missing"
        THEN /\ Fail(Error("KeyError", "radial_build", 203))
             /\ g' = [g EXCEPT !.aspect_ratio = geometry_data.aspect_ratio]
        ELSE /\ g' = [g EXCEPT
                        !.aspect_ratio = geometry_data.aspect_ratio,
                        !.radial_build_input = geometry_data.radial_build]
             /\ pc' = "containment"
             /\ UNCHANGED err

\* lines 205-208
ReadContainment ==
  /\ pc = "containment"
  /\ UNCHANGED <<data, loc, kernel, calls, exported>>
  /\ LET containment_data == data.containment_vessel
     IN IF containment_data.t = "missing"
        THEN Fail(Error("KeyError", "containment_vessel", 205)) /\ UNCHANGED g
        ELSE IF containment_data.building_scale_factor.t = "missing"
        THEN /\ Fail(Error("KeyError", "building_scale_factor", 206))
             /\ UNCHANGED g
        ELSE IF containment_data.shield_thickness.t = "missing"
        THEN /\ Fail(Error("KeyError", "shield_thickness", 207))
             /\ g' = [g EXCEPT
                        !.building_sf = containment_data.building_scale_factor]
        ELSE IF containment_data.containment_vessel_thickness.t = "missing"
        THEN /\ Fail(Error("KeyError", "containment_vessel_thickness", 208))
             /\ g' = [g EXCEPT
                        !.building_sf = containment_data.building_scale_factor,
                        !.shield_thickness_input =
                           containment_data.shield_thickness]
        ELSE /\ g' = [g EXCEPT
                        !.building_sf = containment_data.building_scale_factor,
                        !.shield_thickness_input =
                           containment_data.shield_thickness,
                        !.contain_thick =
                           containment_data.containment_vessel_thickness]
             /\ pc' = "containment_read"
             /\ UNCHANGED err

\* line 210: major_radius = aspect_ratio * radial_build_input[0]
ComputeMajorRadius ==
  /\ pc = "containment_read"
  /\ UNCHANGED <<data, loc, kernel, calls, exported>>
  /\ LET first == PyItem0(g.radial_build_input)
         major_radius == PyMul(g.aspect_ratio, first)
     IN IF IsRaise(major_radius)
        THEN Fail(Error(major_radius.v, "", 210)) /\ UNCHANGED g
        ELSE /\ g' = [g EXCEPT !.major_radius = major_radius]
             /\ pc' = "call"
             /\ UNCHANGED err

\* The arguments of the call on lines 213-214, under the parameters' names
radial_build == g.radial_build_input
major_rad == g.major_radius
scale_factor == g.building_sf
shield_thickness == g.shield_thickness_input
contain_thickness == g.contain_thick

\* lines 50-51
DeriveDimensions ==
  /\ pc = "call"
  /\ UNCHANGED <<data, g, kernel, calls, exported>>
  /\ LET radius == reactor_core_radius(radial_build, major_rad)
         height == reactor_core_height(radius)
     IN IF IsRaise(radius)
        THEN Fail(Error(radius.v, "", 50)) /\ UNCHANGED loc
        ELSE /\ loc' = [loc EXCEPT !.reactor_core_radius = radius,
                                   !.reactor_core_height = height]
             /\ pc' = "shielding"
             /\ UNCHANGED err

\* The value of a hollow-cylinder call whose arguments are Python values:
\* an argument that raises does so before the call is made.
HollowCall(height, outer, inner, offset, line) ==
  IF IsRaise(height) THEN Raised(Error(height.v, "", line))
  ELSE IF IsRaise(outer) THEN Raised(Error(outer.v, "", line))
  ELSE IF IsRaise(inner) THEN Raised(Error(inner.v, "", line))
  ELSE IF IsRaise(offset) THEN Raised(Error(offset.v, "", line))
  ELSE Entered("generate_hollow_cylinder",
               <<height.v, outer.v, inner.v, <<0, 0, offset.v>>>>,
               generate_hollow_cylinder(height.v, outer.v, inner.v,
                                        <<0, 0, offset.v>>))

\* lines 131-135
ShieldingCall ==
  HollowCall(loc.reactor_core_height, loc.reactor_core_radius,
             PySub(loc.reactor_core_radius, shield_thickness), Num(0), 134)

BuildShielding ==
  /\ pc = "shielding"
  /\ Exec(ShieldingCall, "reactor_shielding", "scale", 131)

\* line 137
AssignScaleFactor ==
  /\ pc = "scale"
  /\ loc' = [loc EXCEPT !.building_scale_factor = scale_factor]
  /\ pc' = "shell"
  /\ UNCHANGED <<data, g, kernel, calls, err, exported>>

BuildingRadius == PyMul(loc.reactor_core_radius, loc.building_scale_factor)

\* lines 138-142
ShellCall ==
  HollowCall(PyMul(loc.reactor_core_height, loc.building_scale_factor),
             BuildingRadius,
             PySub(BuildingRadius, contain_thickness), Num(0), 139)

BuildShell ==
  /\ pc = "shell"
  /\ Exec(ShellCall, "reactor_building", "core_floor", 138)

\* lines 144-148
CoreFloorCall ==
  LET disk == Cylinder("ZX",
                       <<0, 0, PyHalf(PyNeg(loc.reactor_core_height)).v>>,
                       SlabThickness, loc.reactor_core_radius.v)
  IN Returned(<<disk>>, disk)

BuildCoreFloor ==
  /\ pc = "core_floor"
  /\ Exec(CoreFloorCall, "reactor_core_floor", "building_floor", 144)

\* lines 150-154
BuildingFloorCall ==
  LET disk == Cylinder("ZX",
                       <<0, 0, PyHalf(PyMul(PyNeg(loc.reactor_core_height),
                                            loc.building_scale_factor)).v>>,
                       SlabThickness, BuildingRadius.v)
  IN Returned(<<disk>>, disk)

BuildBuildingFloor ==
  /\ pc = "building_floor"
  /\ Exec(BuildingFloorCall, "reactor_building_floor", "support_upper", 150)

\* lines 156-161
SupportUpperCall ==
  HollowCall(Num(SlabThickness), BuildingRadius, loc.reactor_core_radius,
             PyHalf(loc.reactor_core_height), 156)

BuildSupportUpper ==
  /\ pc = "support_upper"
  /\ Exec(SupportUpperCall, "support_structure_upper", "support_middle", 156)

\* lines 163-168
SupportMiddleCall ==
  HollowCall(Num(SlabThickness), BuildingRadius, loc.reactor_core_radius,
             Num(0), 163)

BuildSupportMiddle ==
  /\ pc = "support_middle"
  /\ Exec(SupportMiddleCall, "support_structure_middle", "support_lower", 163)

\* Variant of SupportLowerCall: the ring placed in the building floor's plane.
SupportLowerCall_at_building_floor ==
  HollowCall(Num(SlabThickness), BuildingRadius, loc.reactor_core_radius,
             PyHalf(PyMul(PyNeg(loc.reactor_core_height),
                          loc.building_scale_factor)), 170)

\* lines 170-175
SupportLowerCall ==
  HollowCall(Num(SlabThickness), BuildingRadius, loc.reactor_core_radius,
             PyHalf(PyNeg(loc.reactor_core_height)), 170)

BuildSupportLower ==
  /\ pc = "support_lower"
  /\ Exec(SupportLowerCall, "support_structure_lower", "height", 170)

\* line 177
ComputeBuildingHeight ==
  /\ pc = "height"
  /\ loc' = [loc EXCEPT !.building_height =
               PyMul(loc.reactor_core_height, loc.building_scale_factor)]
  /\ pc' = "roof"
  /\ UNCHANGED <<data, g, kernel, calls, err, exported>>

\* Variant of RoofKind: another of the kinds create_roof supports.
RoofKind_domed == "domed"

\* lines 178-180
RoofKind == "cone"

RoofCall ==
  Entered("create_roof",
          <<RoofKind, BuildingRadius.v, loc.building_height.v>>,
          create_roof(RoofKind, BuildingRadius.v, loc.building_height.v,
                      contain_thickness.v))

BuildRoof ==
  /\ pc = "roof"
  /\ Exec(RoofCall, "roof", "union1", 178)

\* lines 183-189: total_structure = <base>.union(<operand>)
UnionCall(base, operand) ==
  LET u == Union(loc[base], loc[operand]) IN Returned(<<u>>, u)

Union1 ==
  /\ pc = "union1"
  /\ Exec(UnionCall("reactor_shielding", "reactor_building"),
          "total_structure", "union2", 183)

Union2 ==
  /\ pc = "union2"
  /\ Exec(UnionCall("total_structure", "reactor_core_floor"),
          "total_structure", "union3", 184)

Union3 ==
  /\ pc = "union3"
  /\ Exec(UnionCall("total_structure", "reactor_building_floor"),
          "total_structure", "union4", 185)

Union4 ==
  /\ pc = "union4"
  /\ Exec(UnionCall("total_structure", "support_structure_upper"),
          "total_structure", "union5", 186)

Union5 ==
  /\ pc = "union5"
  /\ Exec(UnionCall("total_structure", "support_structure_middle"),
          "total_structure", "union6", 187)

Union6 ==
  /\ pc = "union6"
  /\ Exec(UnionCall("total_structure", "support_structure_lower"),
          "total_structure", "union7", 188)

Union7 ==
  /\ pc = "union7"
  /\ Exec(UnionCall("total_structure", "roof"),
          "total_structure", "box", 189)

\* line 190
BoxCall ==
  LET box0 == Box("front", BoxSize, BoxSize, BoxSize)
      box1 == Translate(box0, <<0, 0, BoxShift>>)
  IN Returned(<<box0, box1>>, box1)

BuildBox ==
  /\ pc = "box"
  /\ Exec(BoxCall, "box1", "cut", 190)

\* Variant of CutCall: the subtraction left out.
CutCall_skipped == Returned(<<>>, loc.total_structure)

\* line 191
CutCall ==
  LET c == Cut(loc.total_structure, loc.box1) IN Returned(<<c>>, c)

CutBox ==
  /\ pc = "cut"
  /\ Exec(CutCall, "total_structure", "return", 191)

\* line 193, and the assignment of lines 213-214
Return ==
  /\ pc = "return"
  /\ g' = [g EXCEPT !.containment_vessel = loc.total_structure]
  /\ pc' = "export"
  /\ UNCHANGED <<data, loc, kernel, calls, err, exported>>

\* line 215
ExportStep ==
  /\ pc = "export"
  /\ UNCHANGED <<data, g, loc, calls>>
  /\ \/ /\ kernel' = Append(kernel,
                            Export(g.containment_vessel, "containment.step"))
        /\ exported' = g.containment_vessel
        /\ pc' = "done"
        /\ UNCHANGED err
     \/ /\ Fail(Error("KernelOperationFailure", "export", 215))
        /\ UNCHANGED <<kernel, exported>>

Next ==
  \/ LoadData
  \/ ReadGeometry
  \/ ReadContainment
  \/ ComputeMajorRadius
  \/ DeriveDimensions
  \/ BuildShielding
  \/ AssignScaleFactor
  \/ BuildShell
  \/ BuildCoreFloor
  \/ BuildBuildingFloor
  \/ BuildSupportUpper
  \/ BuildSupportMiddle
  \/ BuildSupportLower
  \/ ComputeBuildingHeight
  \/ BuildRoof
  \/ Union1
  \/ Union2
  \/ Union3
  \/ Union4
  \/ Union5
  \/ Union6
  \/ Union7
  \/ BuildBox
  \/ CutBox
  \/ Return
  \/ ExportStep

Spec == Init /\ [][Next]_vars

(***************************************************************************)
(* The helpers called on their own, on arguments drawn from bounded sets   *)
(***************************************************************************)
UnitRadii == {k * (One \div 2) : k \in 0..(2 * MaxRadial)} \cup {5 * One}
UnitHeights == {SlabThickness, 2 * One}
UnitOffsets == {<<0, 0, 0>>, <<0, 0, One>>, <<0, 0, 0 - One>>}
RoofTypes == {"flat", "domed", "cone", "pyramid", "Cone", ""}

InitHollow ==
  /\ pc = "unit"
  /\ data = [t |-> "none"]
  /\ g = NoGlobals
  /\ loc \in [height : UnitHeights, outer_radius : UnitRadii,
              inner_radius : UnitRadii, offset : UnitOffsets,
              result : {NoSolid}]
  /\ kernel = <<>>
  /\ calls = <<>>
  /\ err = NoErr
  /\ exported = NoSolid

CallHollowCylinder ==
  /\ pc = "unit"
  /\ Exec(Entered("generate_hollow_cylinder",
                  <<loc.height, loc.outer_radius, loc.inner_radius,
                    loc.offset>>,
                  generate_hollow_cylinder(loc.height, loc.outer_radius,
                                           loc.inner_radius, loc.offset)),
          "result", "returned", 114)

NextHollow == CallHollowCylinder

SpecHollow == InitHollow /\ [][NextHollow]_vars

InitRoof ==
  /\ pc = "unit"
  /\ data = [t |-> "none"]
  /\ g = NoGlobals
  /\ loc \in [roof_type : RoofTypes, reactor_building_radius : UnitRadii,
              building_height : UnitHeights,
              contain_thickness : {0, SlabThickness},
              result : {NoSolid}]
  /\ kernel = <<>>
  /\ calls = <<>>
  /\ err = NoErr
  /\ exported = NoSolid

CallCreateRoof ==
  /\ pc = "unit"
  /\ Exec(Entered("create_roof",
                  <<loc.roof_type, loc.reactor_building_radius,
                    loc.building_height>>,
                  create_roof(loc.roof_type, loc.reactor_building_radius,
                              loc.building_height, loc.contain_thickness)),
          "result", "returned", 53)

NextRoof == CallCreateRoof

SpecRoof == InitRoof /\ [][NextRoof]_vars

(***************************************************************************)
(* mcfe_datatypes: the file_ext attribute of each registered class         *)
(***************************************************************************)
file_ext ==
  [vtp |-> "vtp", vtk |-> "vtk", vtu |-> "vtu", pvtu |-> "pvtu",
   usd |-> "usd", usda |-> "udsa", usdc |-> "usdc", usdz |-> "usdz",
   obj |-> "obj", stp |-> "stp", step |-> "step", h5 |-> "h5",
   h5m |-> "h5m", out |-> "out", xml |-> "xml", stl |-> "stl",
   npz |-> "npz", yaml |-> "yaml", odb |-> "odb", inp |-> "inp",
   pth |-> "pth"]

\* The host reads the file_ext attribute of registered classes.
InitDatatypes ==
  /\ pc = "unit"
  /\ data = [t |-> "none"]
  /\ g = NoGlobals
  /\ loc \in [cls1 : DOMAIN file_ext, cls2 : DOMAIN file_ext,
              ext1 : {""}, ext2 : {""}]
  /\ kernel = <<>>
  /\ calls = <<>>
  /\ err = NoErr
  /\ exported = NoSolid

ReadFileExt ==
  /\ pc = "unit"
  /\ loc' = [loc EXCEPT !.ext1 = file_ext[loc.cls1],
                        !.ext2 = file_ext[loc.cls2]]
  /\ pc' = "read"
  /\ UNCHANGED <<data, g, kernel, calls, err, exported>>

NextDatatypes == ReadFileExt

SpecDatatypes == InitDatatypes /\ [][NextDatatypes]_vars

(***************************************************************************)
(* Properties                                                              *)
(***************************************************************************)
RECURSIVE RightSum(_)
RightSum(s) ==
  IF Len(s) = 0 THEN 0
  ELSE s[Len(s)].v + RightSum(SubSeq(s, 1, Len(s) - 1))

\* C1: for a non-empty radial_build and major_radius >= 0, core_radius is
\* sum(radial_build) + 0.8 + major_radius and core_height is twice that; the
\* reactor_shielding hollow cylinder has height core_height, outer radius
\* core_radius and inner radius core_radius - shield_thickness.
C1_CoreDimensions ==
  (/\ loc.reactor_core_radius.t = "num"
   /\ Len(g.radial_build_input.v) > 0
   /\ g.major_radius.v >= 0)
  => LET R == RightSum(g.radial_build_input.v) + ((8 * One) \div 10)
                + g.major_radius.v
         H == 2 * R
     IN /\ loc.reactor_core_radius.v = R
        /\ loc.reactor_core_height.v = H
        /\ loc.reactor_shielding.op # "none"
             => /\ loc.reactor_shielding.op = "cut"
                /\ loc.reactor_shielding.a.op = "cylinder"
                /\ loc.reactor_shielding.a.h = H
                /\ loc.reactor_shielding.a.r = R
                /\ loc.reactor_shielding.b.op = "cylinder"
                /\ loc.reactor_shielding.b.h = H
                /\ loc.reactor_shielding.b.r
                     = R - g.shield_thickness_input.v

\* radial_build = [1.0, 2.0], aspect_ratio = 1.5: core_radius 5.3, shielding
\* built with shield_thickness 0.5.
C1_Witness ==
  /\ loc.reactor_shielding.op = "cut"
  /\ g.radial_build_input = List(<<Num(One), Num(2 * One)>>)
  /\ g.major_radius = Num(1500)
  /\ loc.reactor_core_radius = Num(5300)
  /\ loc.reactor_shielding.b.r = 4800

\* C2: generate_hollow_cylinder raises its ValueError whenever
\* outer_radius <= inner_radius (equal radii included), before any cylinder is
\* constructed and without returning a solid; when outer_radius >
\* inner_radius it raises no validation error.
C2_HollowCylinderRejects ==
  pc # "unit"
  => IF loc.outer_radius <= loc.inner_radius
     THEN /\ pc = "failed"
          /\ err.type = "ValueError"
          /\ err.msg = "outer_radius must be larger than inner_radius"
          /\ kernel = <<>>
          /\ loc.result = NoSolid
     ELSE err.type # "ValueError"

\* outer_radius = inner_radius = 5.0 was rejected.
C2_Witness ==
  /\ pc = "failed"
  /\ loc.outer_radius = 5 * One
  /\ loc.inner_radius = 5 * One
  /\ err.type = "ValueError"
  /\ kernel = <<>>

ErrKey(e) == <<e.type, e.msg>>

\* C3: create_roof with a kind other than "flat", "domed", "cone" raises the
\* invalid-roof-type error, which differs from the error of the
\* hollow-cylinder check, constructs no solid first and returns no roof.
C3_UnknownRoofRejected ==
  (pc # "unit" /\ loc.roof_type \notin {"flat", "domed", "cone"})
  => /\ pc = "failed"
     /\ err.type = "ValueError"
     /\ err.msg = "Invalid roof type"
     /\ ErrKey(err) # ErrKey(generate_hollow_cylinder(One, One, One,
                                                      Origin).err)
     /\ kernel = <<>>
     /\ loc.result = NoSolid

\* create_roof("pyramid", ...) was rejected.
C3_Witness ==
  /\ pc = "failed"
  /\ loc.roof_type = "pyramid"
  /\ err.msg = "Invalid roof type"

C4_State ==
  /\ (pc = "failed") <=> (err # NoErr)
  /\ pc = "failed" => exported = NoSolid
  /\ \A i \in 1..Len(kernel) :
       kernel[i].op = "export" => (pc = "done" /\ i = Len(kernel))
  /\ exported # NoSolid
       => /\ pc = "done"
          /\ err = NoErr
          /\ loc.total_structure # NoSolid
          /\ g.containment_vessel = loc.total_structure
          /\ exported = g.containment_vessel

\* C4: the build is all-or-nothing.  An error is recorded exactly in the
\* failed state, from which no further step is taken (no later construction,
\* union, cut or export); the export is performed only in a run that
\* completed, and it exports the solid reactor_building returned.
C4_AllOrNothing == [](C4_State) /\ [][pc # "failed"]_vars

\* The last union (with the roof) failed in the kernel, after every solid had
\* been built: nothing was exported.
C4_Witness ==
  /\ pc = "failed"
  /\ err.type = "KernelOperationFailure"
  /\ err.line = 189
  /\ loc.roof # NoSolid
  /\ exported = NoSolid

BadScalar(x) == x.t # "num"
BadRadialBuild(x) ==
  \/ x.t # "list"
  \/ /\ x.t = "list"
     /\ \/ Len(x.v) = 0
        \/ \E i \in 1..Len(x.v) : x.v[i].t # "num"

ConfigDefect ==
  /\ data.t = "obj"
  /\ \/ data.geometry.t = "missing"
     \/ data.containment_vessel.t = "missing"
     \/ /\ data.geometry.t = "obj"
        /\ data.containment_vessel.t = "obj"
        /\ \/ BadScalar(data.geometry.aspect_ratio)
           \/ BadRadialBuild(data.geometry.radial_build)
           \/ BadScalar(data.containment_vessel.building_scale_factor)
           \/ BadScalar(data.containment_vessel.shield_thickness)
           \/ BadScalar(data.containment_vessel.containment_vessel_thickness)

\* C5: a missing or malformed required field of the input document is
\* surfaced before the first CAD-kernel solid is constructed, so a run on such
\* a document never makes a kernel call.
C5_ConfigErrorBeforeGeometry == ConfigDefect => kernel = <<>>

\* C6: every registered class's file_ext equals the class name, and no two
\* classes share a file_ext.
C6_ExtEqualsClassName ==
  pc = "read"
  => /\ loc.ext1 = loc.cls1
     /\ loc.ext2 = loc.cls2
     /\ loc.ext1 = loc.ext2 => loc.cls1 = loc.cls2

PipelineOps ==
  <<"cylinder", "cylinder", "cut",
    "cylinder", "cylinder", "cut",
    "cylinder",
    "cylinder",
    "cylinder", "cylinder", "cut",
    "cylinder", "cylinder", "cut",
    "cylinder", "cylinder", "cut",
    "cylinder", "chamfer", "cylinder", "chamfer", "translate", "cut",
    "translate",
    "union", "union", "union", "union", "union", "union", "union",
    "box", "translate", "cut", "export">>

\* C7: a successful run is one fixed sequence: parameters loaded, dimensions
\* derived, the eight solids constructed in order (shielding, building shell,
\* core floor, building floor, upper, middle, lower ring, roof), seven unions
\* folding them onto the shielding in that order, one subtraction of the
\* 100x100x100 box centred at z = +50 after the last union, then one export of
\* the result.
C7_Pipeline ==
  pc = "done"
  => /\ g.major_radius.t = "num"
     /\ loc.reactor_core_radius.t = "num"
     /\ loc.reactor_core_height.t = "num"
     /\ Len(kernel) = Len(PipelineOps)
     /\ \A i \in 1..Len(kernel) : kernel[i].op = PipelineOps[i]
     /\ kernel[3] = loc.reactor_shielding
     /\ kernel[6] = loc.reactor_building
     /\ kernel[7] = loc.reactor_core_floor
     /\ kernel[8] = loc.reactor_building_floor
     /\ kernel[11] = loc.support_structure_upper
     /\ kernel[14] = loc.support_structure_middle
     /\ kernel[17] = loc.support_structure_lower
     /\ kernel[24] = loc.roof
     /\ kernel[25] = Union(kernel[3], kernel[6])
     /\ kernel[26] = Union(kernel[25], kernel[7])
     /\ kernel[27] = Union(kernel[26], kernel[8])
     /\ kernel[28] = Union(kernel[27], kernel[11])
     /\ kernel[29] = Union(kernel[28], kernel[14])
     /\ kernel[30] = Union(kernel[29], kernel[17])
     /\ kernel[31] = Union(kernel[30], kernel[24])
     /\ kernel[32] = Box("front", 100 * One, 100 * One, 100 * One)
     /\ kernel[33] = Translate(kernel[32], <<0, 0, 50 * One>>)
     /\ kernel[34] = Cut(kernel[31], kernel[33])
     /\ kernel[35] = Export(kernel[34], "containment.step")
     /\ exported = kernel[34]

\* A run has completed and exported its solid.
C7_Witness ==
  /\ pc = "done"
  /\ exported # NoSolid
  /\ Len(kernel) = 35

RingIs(ring, outer, inner, z) ==
  /\ ring.op = "cut"
  /\ ring.a = Cylinder("ZX", <<0, 0, z>>, (3 * One) \div 10, outer)
  /\ ring.b = Cylinder("ZX", <<0, 0, z>>, (3 * One) \div 10, inner)

\* C8 as stated: the three rings sit at +building_height/2, 0 and
\* -building_height/2, the lower one in the building floor's plane.
C8_RingsAtBuildingPlanes ==
  loc.support_structure_lower.op # "none"
  => LET R == loc.reactor_core_radius.v
         F == loc.building_scale_factor.v
         BR == (R * F) \div One
         BH == (loc.reactor_core_height.v * F) \div One
     IN /\ RingIs(loc.support_structure_upper, BR, R, BH \div 2)
        /\ RingIs(loc.support_structure_middle, BR, R, 0)
        /\ RingIs(loc.support_structure_lower, BR, R, 0 - (BH \div 2))
        /\ loc.support_structure_lower.a.off = loc.reactor_building_floor.off

\* C8, amended: the three rings (thickness 0.3, outer radius core_radius *
\* scale_factor, inner radius core_radius) sit at +core_height/2, 0 and
\* -core_height/2, so the lower ring lies in the plane of the core floor
\* disk, which is not the plane of the building floor disk.
C8_RingsAtCorePlanes ==
  LET R == loc.reactor_core_radius.v
      F == loc.building_scale_factor.v
      BR == (R * F) \div One
      H == loc.reactor_core_height.v
  IN /\ loc.support_structure_upper.op # "none"
          => RingIs(loc.support_structure_upper, BR, R, H \div 2)
     /\ loc.support_structure_middle.op # "none"
          => RingIs(loc.support_structure_middle, BR, R, 0)
     /\ loc.support_structure_lower.op # "none"
          => /\ RingIs(loc.support_structure_lower, BR, R, 0 - (H \div 2))
             /\ loc.support_structure_lower.a.off = loc.reactor_core_floor.off
             /\ loc.support_structure_lower.a.off
                  # loc.reactor_building_floor.off

\* All three rings built around a core of radius 5.3 scaled by 1.2.
C8_Witness ==
  /\ loc.support_structure_lower.op = "cut"
  /\ loc.reactor_core_radius = Num(5300)
  /\ loc.building_scale_factor = Num(1200)
  /\ loc.support_structure_lower.a.off = <<0, 0, 0 - 5300>>
  /\ loc.reactor_building_floor.off = <<0, 0, 0 - 6360>>

IsRoofCall(c) == c.fn = "create_roof"
IsHollowCall(c) == c.fn = "generate_hollow_cylinder"
RoofCalls == SelectSeq(calls, IsRoofCall)
HollowCalls == SelectSeq(calls, IsHollowCall)

====
